---- MODULE Spec2Model ----
(***************************************************************************)
(* Model of the milimg decoder (src/unnamed/part_000):                     *)
(*   parseMilimgContainer  - the container parser,                         *)
(*   decodeAV1Frame        - the WebCodecs plane decoder adapter,          *)
(*   combineRGBAFrames     - the alpha compositor,                         *)
(*   frameToPNG            - the raster encoder adapter,                   *)
(*   decodeMilimg          - the top-level decode pipeline.                *)
(*                                                                         *)
(* A Buffer is a sequence of bytes (0..255); JavaScript index i is TLA+    *)
(* index i+1.  All size and dimension fields of the generated inputs are   *)
(* below 2^31, so the integer arithmetic of the model is exact.            *)
(***************************************************************************)
EXTENDS Integers, Sequences, FiniteSets, TLC

VARIABLES
  buffer,      \* the argument of the call under study
  pc,          \* position of the call
  parsed,      \* outcome of parseMilimgContainer(buffer)
  colorIn,     \* combineRGBAFrames: argument colorFrame
  alphaIn,     \* combineRGBAFrames: argument alphaFrame
  combined,    \* combineRGBAFrames: outcome
  local,       \* decodeMilimg: its locals header, colorFrame, alphaFrame,
               \* finalFrame (frames are held by reference; <<>> is unset/null)
  heap,        \* the VideoFrame objects alive or closed, by reference
  outcome,     \* decodeMilimg: how the returned promise settled
  hist         \* history of the call: stages run, decoder outcomes, closes, reads

vars == <<buffer, pc, parsed, colorIn, alphaIn, combined, local, heap,
          outcome, hist>>

(***************************************************************************)
(* Bounds of the model.                                                    *)
(***************************************************************************)
MaxPayload == 2     \* payload sizes declared and supplied: 0..MaxPayload
MaxPixels == 4      \* frames of the compositor have at most MaxPixels pixels

Min(a, b) == IF a < b THEN a ELSE b

(***************************************************************************)
(* JavaScript values.                                                      *)
(***************************************************************************)
\* An optional value (T | undefined, T | null): <<>> is undefined/null.
None == <<>>
Some(x) == <<x>>
IsSome(o) == o # <<>>
Get(o) == o[1]

\* A function call either returns a value or throws.
Return(v) == [ok |-> TRUE, value |-> Some(v), name |-> "", message |-> ""]
Throw(n, m) == [ok |-> FALSE, value |-> None, name |-> n, message |-> m]

(***************************************************************************)
(* Buffer primitives used by the parser.                                   *)
(***************************************************************************)
SubarrayEndAsLength(buf, start, end) ==
  LET s == Min(start, Len(buf))
      e == Min(start + end, Len(buf))
  IN  IF e <= s THEN <<>> ELSE SubSeq(buf, s + 1, e)

\* Uint8Array.prototype.subarray(start, end) for 0 <= start: both ends are
\* clamped to the length, an empty view results when end <= start.
Subarray(buf, start, end) ==
  LET s == Min(start, Len(buf))
      e == Min(end, Len(buf))
  IN  IF e <= s THEN <<>> ELSE SubSeq(buf, s + 1, e)

\* Buffer.prototype.toString('ascii'): every byte is masked to 7 bits before
\* it becomes a character code.
ToStringAscii(bytes) == [i \in 1..Len(bytes) |-> bytes[i] % 128]

\* The string literal 'Milimg00' as character codes.
MagicString == <<77, 105, 108, 105, 109, 103, 48, 48>>

\* The bounds check of the fixed-width reads: they throw a RangeError unless
\* all n bytes at offset lie inside the buffer.
CanRead(buf, offset, n) == offset + n <= Len(buf)

ReadUInt32LE(buf, offset) ==
  ((buf[offset + 4] * 256 + buf[offset + 3]) * 256 + buf[offset + 2]) * 256
    + buf[offset + 1]

\* Buffer.prototype.readUInt32BE(offset), for an offset that CanRead.
ReadUInt32BE(buf, offset) ==
  ((buf[offset + 1] * 256 + buf[offset + 2]) * 256 + buf[offset + 3]) * 256
    + buf[offset + 4]

\* Number(buffer.readBigUInt64BE(offset)), for an offset that CanRead.  The
\* parser uses the value only as a byte count added to an offset (the end of
\* a subarray, the offset of the next read), so a value of 2^30 or more is
\* kept as 2^30: it exceeds the length of every buffer either way.
ReadBigUInt64BE(buf, offset) ==
  IF /\ \A k \in 1..4 : buf[offset + k] = 0
     /\ buf[offset + 5] < 64
  THEN ((buf[offset + 5] * 256 + buf[offset + 6]) * 256 + buf[offset + 7]) * 256
         + buf[offset + 8]
  ELSE 1073741824

(***************************************************************************)
(* parseMilimgContainer (lines 19-63).  The header it returns is the       *)
(* record [version, width, height, colorPayload, alphaPayload], where      *)
(* alphaPayload is optional.  It throws Error('File format error: invalid  *)
(* magic number'), Error('Unsupported version: <version>'), or the         *)
(* RangeError of a fixed-width read past the end of the buffer.            *)
(***************************************************************************)
InvalidMagic == Throw("Error", "File format error: invalid magic number")
UnsupportedVersion(version) ==
  Throw("Error", "Unsupported version: " \o ToString(version))
OutOfRange == Throw("RangeError", "out of range")

\* Lines 48-62: the alpha payload of a version-1 container, and the return.
ParseAlpha(buf, version, width, height, colorPayload, offset) ==
  IF version = 1
  THEN IF ~CanRead(buf, offset, 8) THEN OutOfRange
       ELSE LET alphaPayloadSize == ReadBigUInt64BE(buf, offset)
                alphaPayload == Subarray(buf, offset + 8,
                                         offset + 8 + alphaPayloadSize)
            IN  Return([version |-> version, width |-> width,
                        height |-> height, colorPayload |-> colorPayload,
                        alphaPayload |-> Some(alphaPayload)])
  ELSE Return([version |-> version, width |-> width, height |-> height,
               colorPayload |-> colorPayload, alphaPayload |-> None])

\* Lines 36-46: width, height, the color payload size and the color payload.
ParseBody(buf, version) ==
  IF ~CanRead(buf, 12, 4) \/ ~CanRead(buf, 16, 4) \/ ~CanRead(buf, 20, 8)
  THEN OutOfRange
  ELSE LET width == ReadUInt32BE(buf, 12)
           height == ReadUInt32BE(buf, 16)
           colorPayloadSize == ReadBigUInt64BE(buf, 20)
           colorPayload == Subarray(buf, 28, 28 + colorPayloadSize)
       IN  ParseAlpha(buf, version, width, height, colorPayload,
                      28 + colorPayloadSize)

\* Lines 20-34: the magic number and the version.
ParseMilimgContainer(buf) ==
  LET magic == ToStringAscii(Subarray(buf, 0, 8))
  IN  IF magic # MagicString THEN InvalidMagic
      ELSE IF ~CanRead(buf, 8, 4) THEN OutOfRange
      ELSE LET version == ReadUInt32BE(buf, 8)
           IN  IF version # 0 /\ version # 1
               THEN UnsupportedVersion(version)
               ELSE ParseBody(buf, version)

(***************************************************************************)
(* Frames and canvases.  A VideoFrame is [displayWidth, displayHeight,     *)
(* data]: data is the row-major RGBA array of its pixels, four entries per *)
(* pixel, as CanvasRenderingContext2D.getImageData lays it out.  JavaScript*)
(* index i of data is TLA+ index i+1.                                      *)
(***************************************************************************)
Frame(w, h, data) == [displayWidth |-> w, displayHeight |-> h, data |-> data]

\* new OffscreenCanvas(width, height): transparent black.
OffscreenCanvas(width, height) ==
  Frame(width, height, [i \in 1..(4 * width * height) |-> 0])

\* ctx.drawImage(frame, 0, 0) on a canvas that is still transparent black:
\* the frame's pixels land at the same coordinates, the part of the frame
\* outside the canvas is clipped, the part of the canvas outside the frame
\* stays as it was.
DrawImage(canvas, frame) ==
  LET cw == canvas.displayWidth
      fw == frame.displayWidth
      fh == frame.displayHeight
      At(i) == LET p == (i - 1) \div 4
                   c == (i - 1) % 4
                   x == p % cw
                   y == p \div cw
               IN  IF x < fw /\ y < fh
                   THEN frame.data[4 * (y * fw + x) + c + 1]
                   ELSE canvas.data[i]
  IN  Frame(cw, canvas.displayHeight,
            [i \in 1..Len(canvas.data) |-> At(i)])

\* ctx.getImageData(0, 0, width, height).data of a width x height canvas.
GetImageData(canvas) == canvas.data

\* ctx.putImageData(imageData, 0, 0) with an ImageData of the canvas' size.
PutImageData(canvas, data) ==
  Frame(canvas.displayWidth, canvas.displayHeight, data)

ApplyAlphaFromG(data, alphaData) ==
  [i \in 1..Len(data) |-> IF (i - 1) % 4 = 3 THEN alphaData[i - 2] ELSE data[i]]

\* Lines 158-160: data[i + 3] = alphaData[i] for i = 0, 4, 8, ...
ApplyAlpha(data, alphaData) ==
  [i \in 1..Len(data) |-> IF (i - 1) % 4 = 3 THEN alphaData[i - 3] ELSE data[i]]

\* The 2d contexts the platform may refuse: getContext('2d') returns null.
Contexts == {"ctx", "alphaCtx"}

\* combineRGBAFrames (lines 131-168); granted is the set of 2d contexts the
\* platform hands out during the call.
CombineRGBAFrames(colorFrame, alphaFrame, granted) ==
  LET width == colorFrame.displayWidth
      height == colorFrame.displayHeight
  IN  IF "ctx" \notin granted
      THEN Throw("Error", "Failed to get canvas context")
      ELSE LET canvas == DrawImage(OffscreenCanvas(width, height), colorFrame)
               data == GetImageData(canvas)
           IN  IF "alphaCtx" \notin granted
               THEN Throw("Error", "Failed to get alpha canvas context")
               ELSE LET alphaCanvas ==
                          DrawImage(OffscreenCanvas(width, height), alphaFrame)
                        alphaData == GetImageData(alphaCanvas)
                    IN  Return(PutImageData(canvas,
                                            ApplyAlpha(data, alphaData)))

\* What the platform may refuse during frameToPNG: the 2d context, and the
\* PNG encoding of canvas.convertToBlob.
RasterServices == {"ctx", "blob"}

\* frameToPNG (lines 113-126): the PNG is modelled by the image it encodes.
FrameToPNG(frame, granted) ==
  IF "ctx" \notin granted
  THEN Throw("Error", "Failed to get canvas context")
  ELSE LET canvas == DrawImage(OffscreenCanvas(frame.displayWidth,
                                               frame.displayHeight), frame)
       IN  IF "blob" \notin granted
           THEN Throw("EncodingError", "convertToBlob rejected")
           ELSE Return([type |-> "image/png", image |-> canvas])

(***************************************************************************)
(* decodeAV1Frame (lines 68-108).  The VideoDecoder is the platform's: for *)
(* the one chunk it is given it calls output once and flush resolves       *)
(* ("frame"), flush resolves with no output ("noFrame"), it calls error    *)
(* ("error"), or it calls output and then error ("frameThenError").  The   *)
(* outcome is how the returned promise settles, and the frame the decoder  *)
(* handed to the output callback, if any.                                  *)
(***************************************************************************)
DecoderBehaviours == {"frame", "noFrame", "error", "frameThenError"}

DecodeAV1Frame(payload, behaviour, frame) ==
  IF ~IsSome(payload) \/ Len(Get(payload)) = 0
  THEN [settled |-> Return(None), emitted |-> None]
  ELSE CASE behaviour = "frame" ->
              [settled |-> Return(Some(frame)), emitted |-> Some(frame)]
         [] behaviour = "noFrame" ->
              [settled |-> Return(None), emitted |-> None]
         [] behaviour = "error" ->
              [settled |-> Throw("Error", "VideoDecoder error"),
               emitted |-> None]
         [] behaviour = "frameThenError" ->
              [settled |-> Throw("Error", "VideoDecoder error"),
               emitted |-> Some(frame)]

\* What the decoder did with a payload, for the history of the call.
DecodeKind(payload, behaviour) ==
  IF Len(payload) = 0 THEN "empty" ELSE behaviour

(***************************************************************************)
(* Values of the variables a specification does not use.                   *)
(***************************************************************************)
Pending == [ok |-> FALSE, value |-> None, name |-> "pending", message |-> ""]
NoLocal == [header |-> None, colorFrame |-> None, alphaFrame |-> None,
            finalFrame |-> None]
NoHist == [stages |-> <<>>, colorDecode |-> "", alphaDecode |-> "",
           readClosed |-> {}]
NoFrame == Frame(0, 0, <<>>)

ParserIdle == parsed = Pending
CombinerIdle == colorIn = NoFrame /\ alphaIn = NoFrame /\ combined = Pending
PipelineIdle == local = NoLocal /\ heap = <<>> /\ outcome = Pending
                  /\ hist = NoHist

(***************************************************************************)
(* Input buffers of the parser: containers laid out field by field, with   *)
(* declared sizes that may exceed what follows, cut at every length.       *)
(***************************************************************************)
U32BE(v) == <<v \div 16777216, (v \div 65536) % 256, (v \div 256) % 256, v % 256>>
U64BE(v) == <<0, 0, 0, 0>> \o U32BE(v)
Bytes(base, n) == [i \in 1..n |-> base + i]

Container(magic, v, dim, n, nc, m, na) ==
  magic \o U32BE(v) \o U32BE(dim[1]) \o U32BE(dim[2])
    \o U64BE(n) \o Bytes(160, nc) \o U64BE(m) \o Bytes(176, na)

\* 'Milimg01', 'milimg00', and 'Milimg00' with the top bit of the 'M' set.
BadMagics == { <<77, 105, 108, 105, 109, 103, 48, 49>>,
               <<109, 105, 108, 105, 109, 103, 48, 48>>,
               <<205, 105, 108, 105, 109, 103, 48, 48>> }
Versions == {0, 1, 2, 16777216}
Dims == { <<1, 2>>, <<258, 65539>> }
DeclaredSizes == (0..MaxPayload) \cup {1000}

Containers ==
  { Container(MagicString, v, d, n, nc, m, na) :
      v \in Versions, d \in Dims, n \in DeclaredSizes, nc \in 0..MaxPayload,
      m \in DeclaredSizes, na \in 0..MaxPayload }
  \cup { Container(g, v, <<1, 2>>, 1, 1, 1, 1) : g \in BadMagics, v \in {0, 1} }

Buffers == UNION { { SubSeq(c, 1, l) : l \in 0..Len(c) } : c \in Containers }

(***************************************************************************)
(* SpecParse: one call of parseMilimgContainer on every input buffer.      *)
(***************************************************************************)
InitParse ==
  /\ buffer \in Buffers
  /\ pc = "parse"
  /\ ParserIdle /\ CombinerIdle /\ PipelineIdle

Parse ==
  /\ pc = "parse"
  /\ parsed' = ParseMilimgContainer(buffer)
  /\ pc' = "parsed"
  /\ UNCHANGED <<buffer, colorIn, alphaIn, combined, local, heap, outcome, hist>>

NextParse == Parse

SpecParse == InitParse /\ [][NextParse]_vars

(***************************************************************************)
(* The container layout of spec section 4.1, read off the buffer directly. *)
(***************************************************************************)
ExactMagic(buf) == Len(buf) >= 8 /\ SubSeq(buf, 1, 8) = MagicString
BE32(buf, off) ==
  buf[off + 1] * 16777216 + buf[off + 2] * 65536 + buf[off + 3] * 256
    + buf[off + 4]
\* A 64-bit field; 2^30 stands for every value from 2^30 on.
BE64(buf, off) ==
  IF \E k \in 1..4 : buf[off + k] # 0 THEN 1073741824
  ELSE IF buf[off + 5] >= 64 THEN 1073741824
  ELSE BE32(buf, off + 4)

\* The fixed header is complete and names a supported version.
HeaderPresent(buf) ==
  ExactMagic(buf) /\ Len(buf) >= 28 /\ BE32(buf, 8) \in {0, 1}
DeclaredColor(buf) == BE64(buf, 20)
AlphaFieldPresent(buf) ==
  HeaderPresent(buf) /\ BE32(buf, 8) = 1
    /\ Len(buf) >= 36 + DeclaredColor(buf)
DeclaredAlpha(buf) == BE64(buf, 28 + DeclaredColor(buf))
ColorTruncated(buf) ==
  HeaderPresent(buf) /\ DeclaredColor(buf) > Len(buf) - 28
AlphaTruncated(buf) ==
  AlphaFieldPresent(buf)
    /\ DeclaredAlpha(buf) > Len(buf) - 36 - DeclaredColor(buf)
PayloadsFit(buf) ==
  /\ HeaderPresent(buf)
  /\ ~ColorTruncated(buf)
  /\ BE32(buf, 8) = 1 => AlphaFieldPresent(buf) /\ ~AlphaTruncated(buf)

IsFormatError(r) ==
  /\ ~r.ok
  /\ r.name = "Error"
  /\ r.message \in { "File format error: invalid magic number",
                     "File format error: truncated color payload",
                     "File format error: truncated alpha payload" }

\* C3: whenever a declared payload size exceeds the bytes that remain after
\* its size field (color in any version, alpha in version 1), the parser
\* fails with a FormatError; a header it returns never carries a payload
\* shorter than declared.
C3_TruncatedPayloadIsFormatError ==
  pc = "parsed" /\ (ColorTruncated(buffer) \/ AlphaTruncated(buffer))
    => IsFormatError(parsed)

\* C5: for a buffer whose declared payloads fit, the parser returns version,
\* width, height = the big-endian u32 at offsets 8, 12, 16, colorPayload =
\* bytes [28, 28+N), and for version 1 alphaPayload = bytes [36+N, 36+N+M);
\* alphaPayload is absent exactly when version is 0.
C5_HeaderFieldsFollowLayout ==
  pc = "parsed" /\ PayloadsFit(buffer) =>
    /\ parsed.ok
    /\ LET h == Get(parsed.value)
           n == DeclaredColor(buffer)
       IN  /\ h.version = BE32(buffer, 8)
           /\ h.width = BE32(buffer, 12)
           /\ h.height = BE32(buffer, 16)
           /\ h.colorPayload = [i \in 1..n |-> buffer[28 + i]]
           /\ (h.alphaPayload = None) <=> (h.version = 0)
           /\ h.version = 1 =>
                h.alphaPayload =
                  Some([i \in 1..DeclaredAlpha(buffer) |-> buffer[36 + n + i]])

C5_Witness ==
  /\ pc = "parsed" /\ PayloadsFit(buffer) /\ parsed.ok
  /\ BE32(buffer, 8) = 1
  /\ DeclaredColor(buffer) = 2 /\ DeclaredAlpha(buffer) = 1
  /\ BE32(buffer, 12) = 258

\* C8: every buffer whose first 8 bytes are not exactly "Milimg00" (shorter
\* buffers included) is rejected with FormatError("invalid magic number").
C8_BadMagicIsRejected ==
  pc = "parsed" /\ ~ExactMagic(buffer)
    => /\ ~parsed.ok
       /\ parsed.name = "Error"
       /\ parsed.message = "File format error: invalid magic number"

\* C9: with a valid magic, a big-endian u32 at offset 8 other than 0 or 1
\* makes the parser fail with UnsupportedVersionError carrying that value,
\* and no returned header has a version outside {0, 1}.
C9_UnsupportedVersionIsRejected ==
  pc = "parsed" =>
    /\ ExactMagic(buffer) /\ Len(buffer) >= 12 /\ BE32(buffer, 8) \notin {0, 1}
         => /\ ~parsed.ok
            /\ parsed.name = "Error"
            /\ parsed.message =
                 "Unsupported version: " \o ToString(BE32(buffer, 8))
    /\ parsed.ok => Get(parsed.value).version \in {0, 1}

C9_Witness ==
  /\ pc = "parsed" /\ ExactMagic(buffer) /\ Len(buffer) >= 12
  /\ BE32(buffer, 8) = 16777216
  /\ ~parsed.ok

(***************************************************************************)
(* SpecCombine: one call of combineRGBAFrames on every pair of frames of   *)
(* at most MaxPixels pixels, of equal or different dimensions.             *)
(***************************************************************************)
ColorPixels == { <<10, 20, 30, 255>>, <<200, 100, 50, 128>> }
AlphaPixels == { <<128, 7, 9, 255>>, <<0, 255, 3, 64>> }

FrameDims == { d \in (1..MaxPixels) \X (1..MaxPixels) : d[1] * d[2] <= MaxPixels }

\* The frames of dimensions d whose pixels are drawn from the set pixels.
FramesOf(d, pixels) ==
  { Frame(d[1], d[2], [i \in 1..(4 * d[1] * d[2]) |->
                         px[((i - 1) \div 4) + 1][((i - 1) % 4) + 1]]) :
      px \in [1..(d[1] * d[2]) -> pixels] }

InitCombine ==
  /\ \E d \in FrameDims : colorIn \in FramesOf(d, ColorPixels)
  /\ \E d \in FrameDims : alphaIn \in FramesOf(d, AlphaPixels)
  /\ combined = Pending
  /\ pc = "combine"
  /\ buffer = <<>>
  /\ ParserIdle /\ PipelineIdle

Combine ==
  /\ pc = "combine"
  /\ \E granted \in SUBSET Contexts :
       combined' = CombineRGBAFrames(colorIn, alphaIn, granted)
  /\ pc' = "combined"
  /\ UNCHANGED <<buffer, parsed, colorIn, alphaIn, local, heap, outcome, hist>>

NextCombine == Combine

SpecCombine == InitCombine /\ [][NextCombine]_vars

SameDimensions(f, g) ==
  f.displayWidth = g.displayWidth /\ f.displayHeight = g.displayHeight

\* C6: for a color frame and an alpha frame of identical dimensions, the
\* compositor returns a frame of those dimensions whose channels 0, 1, 2 of
\* every pixel are the color frame's and whose channel 3 is the alpha
\* frame's channel 0; nothing else of either input reaches the output.
C6_CombineCopiesRGBAndAlphaFromR ==
  pc = "combined" /\ combined.ok /\ SameDimensions(colorIn, alphaIn) =>
    LET out == Get(combined.value)
    IN  /\ SameDimensions(out, colorIn)
        /\ Len(out.data) = 4 * colorIn.displayWidth * colorIn.displayHeight
        /\ \A p \in 0..(colorIn.displayWidth * colorIn.displayHeight - 1) :
             /\ \A c \in 1..3 : out.data[4 * p + c] = colorIn.data[4 * p + c]
             /\ out.data[4 * p + 4] = alphaIn.data[4 * p + 1]

C6_Witness ==
  /\ pc = "combined" /\ combined.ok /\ SameDimensions(colorIn, alphaIn)
  /\ colorIn.displayWidth = 2 /\ colorIn.displayHeight = 2
  /\ Get(combined.value).data[4] = 128
  /\ Get(combined.value).data[8] = 0
  /\ colorIn.data[8] = 128

\* C7: compositing a color frame with an alpha frame whose width or height
\* differs fails with DimensionMismatchError and produces no output frame.
C7_DimensionMismatchIsRejected ==
  pc = "combined" /\ ~SameDimensions(colorIn, alphaIn) =>
    ~combined.ok /\ combined.name = "DimensionMismatchError"

(***************************************************************************)
(* decodeMilimg (lines 173-197).  Its frames live in heap, by reference:   *)
(* "color" and "alpha" are the frames the two decoders emit, "composite"   *)
(* the one combineRGBAFrames creates; closes counts the close() calls.     *)
(* One action per stage: each is the code between two awaits.              *)
(***************************************************************************)
Alloc(h, ref, frame) == h @@ (ref :> [frame |-> frame, closes |-> 0])
Close(h, refs) ==
  [r \in DOMAIN h |->
     IF r \in refs THEN [h[r] EXCEPT !.closes = @ + 1] ELSE h[r]]
IsClosed(h, ref) == h[ref].closes > 0

\* The frames a call reads that are null or already closed.
ClosedAmong(h, refs) ==
  { Get(r) : r \in { x \in refs : IsSome(x) /\ IsClosed(h, Get(x)) } }
Unreadable(h, refs) ==
  IF \E r \in refs : ~IsSome(r)
  THEN Throw("TypeError", "null is not a VideoFrame")
  ELSE Throw("InvalidStateError", "the VideoFrame is closed")
CanReadFrames(h, refs) ==
  \A r \in refs : IsSome(r) /\ ~IsClosed(h, Get(r))

ColorFrameNeverMissing(frame) == FALSE
\* Line 177: if (!colorFrame)
ColorFrameMissing(frame) == ~IsSome(frame)

\* Line 184: if (header.version === 1 && header.alphaPayload)
HasAlphaStage(h) == h.version = 1 /\ IsSome(h.alphaPayload)

AlphaFrameAlwaysPresent(frame) == TRUE
\* Line 186: if (alphaFrame)
AlphaFramePresent(frame) == IsSome(frame)

ClosedAfterCombineAll(colorRef, alphaRef, finalRef) ==
  {colorRef, alphaRef, finalRef}
\* Lines 188-189: the frames closed once combineRGBAFrames has returned.
ClosedAfterCombine(colorRef, alphaRef, finalRef) == {colorRef, alphaRef}

\* The frames the decoders emit.  The alpha decoder may emit a frame of
\* the color frame's dimensions or of others.
DecodedColorFrames ==
  { Frame(2, 1, <<10, 20, 30, 255, 200, 100, 50, 255>>) }
DecodedAlphaFrames ==
  { Frame(2, 1, <<128, 128, 128, 255, 0, 0, 0, 255>>),
    Frame(1, 1, <<64, 64, 64, 255>>) }

Settle(r) ==
  /\ outcome' = r
  /\ pc' = "settled"

Init ==
  /\ buffer \in Buffers
  /\ pc = "parse"
  /\ ParserIdle /\ CombinerIdle /\ PipelineIdle

\* Line 174, and the call of decodeAV1Frame of line 176.
ParseContainer ==
  /\ pc = "parse"
  /\ LET r == ParseMilimgContainer(buffer)
     IN  /\ parsed' = r
         /\ hist' = [hist EXCEPT !.stages = Append(@, "parse")]
         /\ IF r.ok
            THEN /\ local' = [local EXCEPT !.header = r.value]
                 /\ pc' = "decodeColor"
                 /\ UNCHANGED outcome
            ELSE /\ Settle(r)
                 /\ UNCHANGED local
  /\ UNCHANGED <<buffer, colorIn, alphaIn, combined, heap>>

\* Lines 176-185: the color decoder settles; the null check; finalFrame.
DecodeColorPlane ==
  /\ pc = "decodeColor"
  /\ \E behaviour \in DecoderBehaviours, frame \in DecodedColorFrames :
       LET payload == Get(local.header).colorPayload
           d == DecodeAV1Frame(Some(payload), behaviour, frame)
           colorFrame == IF d.settled.ok /\ IsSome(Get(d.settled.value))
                         THEN Some("color") ELSE None
       IN  /\ hist' = [hist EXCEPT !.stages = Append(@, "color"),
                                   !.colorDecode = DecodeKind(payload, behaviour)]
           /\ heap' = IF IsSome(d.emitted)
                      THEN Alloc(heap, "color", Get(d.emitted)) ELSE heap
           /\ IF ~d.settled.ok
              THEN Settle(d.settled) /\ UNCHANGED local
              ELSE IF ColorFrameMissing(colorFrame)
              THEN /\ Settle(Throw("Error", "Failed to decode color frame"))
                   /\ UNCHANGED local
              ELSE /\ local' = [local EXCEPT !.colorFrame = colorFrame,
                                             !.finalFrame = colorFrame]
                   /\ pc' = IF HasAlphaStage(Get(local.header))
                            THEN "decodeAlpha" ELSE "toPNG"
                   /\ UNCHANGED outcome
  /\ UNCHANGED <<buffer, parsed, colorIn, alphaIn, combined>>

\* Lines 185-187: the alpha decoder settles; the guard of the compositing.
DecodeAlphaPlane ==
  /\ pc = "decodeAlpha"
  /\ \E behaviour \in DecoderBehaviours, frame \in DecodedAlphaFrames :
       LET payload == Get(Get(local.header).alphaPayload)
           d == DecodeAV1Frame(Some(payload), behaviour, frame)
           alphaFrame == IF d.settled.ok /\ IsSome(Get(d.settled.value))
                         THEN Some("alpha") ELSE None
       IN  /\ hist' = [hist EXCEPT !.stages = Append(@, "alpha"),
                                   !.alphaDecode = DecodeKind(payload, behaviour)]
           /\ heap' = IF IsSome(d.emitted)
                      THEN Alloc(heap, "alpha", Get(d.emitted)) ELSE heap
           /\ IF ~d.settled.ok
              THEN Settle(d.settled) /\ UNCHANGED local
              ELSE /\ local' = [local EXCEPT !.alphaFrame = alphaFrame]
                   /\ pc' = IF AlphaFramePresent(alphaFrame)
                            THEN "combine" ELSE "toPNG"
                   /\ UNCHANGED outcome
  /\ UNCHANGED <<buffer, parsed, colorIn, alphaIn, combined>>

\* Lines 187-189: combineRGBAFrames settles; the two inputs are closed.
CompositeIfNeeded ==
  /\ pc = "combine"
  /\ \E granted \in SUBSET Contexts :
       LET refs == {local.colorFrame, local.alphaFrame}
           r == IF CanReadFrames(heap, refs)
                THEN CombineRGBAFrames(heap[Get(local.colorFrame)].frame,
                                       heap[Get(local.alphaFrame)].frame,
                                       granted)
                ELSE Unreadable(heap, refs)
       IN  /\ hist' = [hist EXCEPT !.stages = Append(@, "combine"),
                                   !.readClosed = @ \cup ClosedAmong(heap, refs)]
           /\ IF r.ok
              THEN /\ local' = [local EXCEPT !.finalFrame = Some("composite")]
                   /\ heap' = Close(Alloc(heap, "composite", Get(r.value)),
                                    ClosedAfterCombine(Get(local.colorFrame),
                                                       Get(local.alphaFrame),
                                                       "composite"))
                   /\ pc' = "toPNG"
                   /\ UNCHANGED outcome
              ELSE /\ Settle(r)
                   /\ UNCHANGED <<local, heap>>
  /\ UNCHANGED <<buffer, parsed, colorIn, alphaIn, combined>>

\* Lines 193-196: frameToPNG settles; finalFrame is closed; the return.
RasterEncode ==
  /\ pc = "toPNG"
  /\ \E granted \in SUBSET RasterServices :
       LET refs == {local.finalFrame}
           r == IF CanReadFrames(heap, refs)
                THEN FrameToPNG(heap[Get(local.finalFrame)].frame, granted)
                ELSE Unreadable(heap, refs)
       IN  /\ hist' = [hist EXCEPT !.stages = Append(@, "png"),
                                   !.readClosed = @ \cup ClosedAmong(heap, refs)]
           /\ heap' = IF r.ok THEN Close(heap, {Get(local.finalFrame)})
                      ELSE heap
           /\ Settle(r)
  /\ UNCHANGED <<buffer, parsed, colorIn, alphaIn, combined, local>>

Next ==
  \/ ParseContainer
  \/ DecodeColorPlane
  \/ DecodeAlphaPlane
  \/ CompositeIfNeeded
  \/ RasterEncode

Spec == Init /\ [][Next]_vars

ColorFailure == Throw("Error", "Failed to decode color frame")
PNGOf(frame) == Return([type |-> "image/png", image |-> frame])

\* C1: when decodeMilimg settles, on success or on the failure of a later
\* stage, every frame the call acquired (the color frame, the alpha frame,
\* the composited frame) has been closed.
C1_EveryFrameClosedAtExit ==
  pc = "settled" =>
    \A f \in {local.colorFrame, local.alphaFrame, local.finalFrame} :
      IsSome(f) => IsClosed(heap, Get(f))

\* The alpha stage let the call go on with the color frame alone:
\* compositing is skipped, the PNG is made from the color frame, and the
\* only failure left is frameToPNG's own.
FallsBackToColor ==
  /\ "combine" \notin { hist.stages[i] : i \in 1..Len(hist.stages) }
  /\ local.colorFrame = Some("color")
  /\ local.finalFrame = Some("color")
  /\ \/ pc = "toPNG"
     \/ /\ pc = "settled"
        /\ hist.stages = <<"parse", "color", "alpha", "png">>
        /\ outcome.ok => outcome = PNGOf(heap["color"].frame)

C4_NoColorFrameIsTerminal ==
  hist.colorDecode \in {"empty", "noFrame"} =>
    /\ pc = "settled"
    /\ outcome = ColorFailure
    /\ hist.stages = <<"parse", "color">>
    /\ heap = <<>>

C4_Witness ==
  /\ hist.colorDecode = "empty"
  /\ pc = "settled" /\ outcome = ColorFailure
  /\ Get(local.header).version = 1
  /\ Len(Get(Get(local.header).alphaPayload)) > 0

\* C10: no frame is closed more than once and none is read after it was
\* closed; on the fallback path the color frame is open while frameToPNG
\* runs and is closed exactly once when it has returned.
C10_NoDoubleCloseNoUseAfterClose ==
  /\ \A r \in DOMAIN heap : heap[r].closes <= 1
  /\ hist.readClosed = {}
  /\ pc = "toPNG" => ~IsClosed(heap, Get(local.finalFrame))
  /\ pc = "combine" => /\ ~IsClosed(heap, Get(local.colorFrame))
                       /\ ~IsClosed(heap, Get(local.alphaFrame))
  /\ pc = "settled" /\ outcome.ok =>
       /\ heap[Get(local.finalFrame)].closes = 1
       /\ heap["color"].closes = 1

C10_Witness ==
  /\ pc = "settled" /\ outcome.ok
  /\ hist.alphaDecode = "noFrame"
  /\ local.finalFrame = Some("color")
  /\ heap["color"].closes = 1

====
